---- MODULE Spec2Model ----
\* A model of AlertService (src/src/services/alertService.ts): the gate that
\* getAlerts waits on, the recovered-notification sweep, the live message
\* listener, markAlertsAsTriggered and the create / move / remove operations.
EXTENDS Bags, FiniteSets, Integers, Sequences, TLC

----------------------------------------------------------------------------
\* Bounds of the model.

\* Spec, the start-up reconciliation: syncTriggeredAlerts is invoked at most
\* MaxSync times, at most MaxMsgs live push messages are delivered and the
\* platform holds at most MaxNotifs undismissed notifications.
MaxSync == 1
MaxMsgs == 1
MaxNotifs == 1
\* SpecLive, repeated syncs and bursts of messages: at most MaxResync
\* invocations and MaxBurst messages.
MaxResync == 2
MaxBurst == 2
\* SpecOps: at most MaxOps create / move / remove operations are started and
\* at most MaxOpMsgs live messages delivered.
MaxOps == 1
MaxOpMsgs == 1
\* markAlertsAsTriggered alone: events in the batch, alerts stored on a market
MaxBatch == 3
MaxStored == 2
\* SpecValidate: the prices asked for are -MaxAsk..MaxAsk, the market prices
\* the feed publishes 1..MaxFeed
MaxAsk == 9
MaxFeed == 4

Markets == {"m1", "m2"}
\* a missing market: `!market` holds of it (alertService.ts:103)
NoMarket == ""
\* prices of the stored alerts and of the trigger events
Prices == {1, 2}

Readers == {"r1"}

----------------------------------------------------------------------------
\* Data.

\* MarketAlert (alertService.ts:2): ts is the creation timestamp, which also
\* tells two records apart.
Alert(ts, m, p, a, t) ==
    [ts |-> ts, market |-> m, price |-> p, active |-> a, triggered |-> t]

\* A trigger event {price, market}; isNum is `typeof price === 'number'`.
Event(m, p, n) == [market |-> m, price |-> p, isNum |-> n]

WellFormedEvents == {Event(m, p, TRUE) : m \in Markets, p \in Prices}
Events == WellFormedEvents \cup {Event(NoMarket, 1, TRUE), Event("m1", 0, FALSE)}
\* the payloads of the live messages
LiveEvents == {Event("m1", 1, TRUE), Event("m1", 2, TRUE), Event(NoMarket, 1, TRUE)}

SeqsUpTo(S, n) == UNION {[1..k -> S] : k \in 0..n}

Range(s) == {s[i] : i \in DOMAIN s}

----------------------------------------------------------------------------
\* markAlertsAsTriggered, the pure part.

\* mutant: only a missing market is skipped
WellFormed_MarketOnly(e) == ~(e.market = NoMarket)

\* alertService.ts:103: the events the reduce keeps
WellFormed(e) == ~(e.market = NoMarket \/ ~e.isNum)

RECURSIVE GroupMarkets(_)
\* the keys of `markets` in insertion order, which is the order of `for ... in`
GroupMarkets(events) ==
    IF events = <<>> THEN <<>>
    ELSE LET rest == GroupMarkets(SubSeq(events, 1, Len(events) - 1))
             e == events[Len(events)]
         IN IF WellFormed(e) /\ e.market \notin Range(rest)
            THEN Append(rest, e.market) ELSE rest

RECURSIVE GroupPrices(_, _)
\* markets[market]: the prices pushed for one market, in event order
GroupPrices(events, m) ==
    IF events = <<>> THEN <<>>
    ELSE LET e == Head(events)
         IN IF WellFormed(e) /\ e.market = m
            THEN <<e.price>> \o GroupPrices(Tail(events), m)
            ELSE GroupPrices(Tail(events), m)

\* mutant: the last alert of that price instead of the first
FindAlert_Last(alerts, price) ==
    IF \E i \in DOMAIN alerts : alerts[i].price = price
    THEN CHOOSE i \in DOMAIN alerts :
            /\ alerts[i].price = price
            /\ \A j \in (i + 1)..Len(alerts) : alerts[j].price # price
    ELSE 0

\* alerts.find(a => a.price === price): the index of the first match, 0 if none
FindAlert(alerts, price) ==
    IF \E i \in DOMAIN alerts : alerts[i].price = price
    THEN CHOOSE i \in DOMAIN alerts :
            /\ alerts[i].price = price
            /\ \A j \in 1..(i - 1) : alerts[j].price # price
    ELSE 0

RECURSIVE MarkPrices(_, _)
\* the loop of alertService.ts:123-129 over the prices of one market
MarkPrices(alerts, prices) ==
    IF prices = <<>> THEN alerts
    ELSE LET i == FindAlert(alerts, Head(prices))
             marked == IF i = 0 THEN alerts
                       ELSE [alerts EXCEPT ![i].triggered = TRUE]
         IN MarkPrices(marked, Tail(prices))

----------------------------------------------------------------------------
\* State.

VARIABLES
    store,          \* the Store Adapter: market -> the saved alert list
    store0,         \* history: the store before any operation ran
    loads,          \* history: markets markAlertsAsTriggered has loaded
    saves,          \* history: markets markAlertsAsTriggered has called saveAlerts on
    notifications,  \* what registration.getNotifications() returns
    promiseOfSync,  \* this._promiseOfSync: 0 is undefined, k the k-th promise
    syncPc,         \* where the k-th syncTriggeredAlerts call stands
    listeners,      \* number of 'message' listeners registered
    calls,          \* the markAlertsAsTriggered calls in flight (a bag)
    msgs,           \* the live messages delivered so far
    reader,         \* the getAlerts calls; result is the caller's alert list
    publicVapidKey, \* whether an application push key is configured
    pushSubscription, \* whether this.pushSubscription is cached
    op,             \* the create / move / remove operation in flight
    opCount,        \* number of operations started
    raced           \* history: alerts marked triggered while op was awaiting

vars == <<store, store0, loads, saves, notifications, promiseOfSync, syncPc,
          listeners, calls, msgs, reader, publicVapidKey, pushSubscription,
          op, opCount, raced>>

opVars == <<publicVapidKey, pushSubscription, op, opCount, raced>>

syncVars == <<notifications, promiseOfSync, syncPc, listeners>>

\* a markAlertsAsTriggered(events) call suspended at its first await
\* (alertService.ts:102-117); src/n say who made the call
NewCall(src, n, events) ==
    [src |-> src, n |-> n, events |-> events, todo |-> GroupMarkets(events),
     pc |-> "load", alerts |-> <<>>]

\* who calls markAlertsAsTriggered: the sweep of a sync, or the listener
Sources == {"sweep", "live"}

InFlight(src, n) == \E c \in BagToSet(calls) : c.src = src /\ c.n = n

\* the call c goes on as d, or returns when it has no market left
Continue(c, d) ==
    IF d.todo = <<>> THEN calls (-) SetToBag({c})
    ELSE (calls (-) SetToBag({c})) (+) SetToBag({d})

\* history: the alerts (by ts) that MarkPrices marks for these prices
Matched(alerts, prices) ==
    {alerts[FindAlert(alerts, prices[i])].ts :
        i \in {j \in DOMAIN prices : FindAlert(alerts, prices[j]) # 0}}

IdleOp ==
    [pc |-> "idle", kind |-> "none", r |-> "r1", ts |-> 0, price |-> 0,
     withList |-> FALSE, was |-> <<>>, list0 |-> <<>>, sub |-> "pending",
     valid |-> "pending", marketPrice |-> <<>>, remote |-> "none",
     toggle |-> "none", saving |-> <<>>, log |-> <<>>]

\* the operation is awaiting its subscription, validation or fetch: it has
\* its list and has not called saveAlerts yet
OpAwaiting == op.pc \in {"sub", "validate", "fetch"}

\* the market of the operation's alert list
OpMarket == reader[op.r].market

IdleReader == [pc |-> "idle", market |-> "m1", gate |-> 0, result |-> <<>>]

\* The store the program starts from: two registered alerts on m1, one on m2.
StartStore ==
    [m \in Markets |->
        IF m = "m1" THEN <<Alert(1, "m1", 1, TRUE, FALSE), Alert(2, "m1", 2, TRUE, FALSE)>>
        ELSE <<Alert(3, "m2", 1, TRUE, FALSE)>>]

Init ==
    /\ store = StartStore
    /\ store0 = store
    /\ loads = {}
    /\ saves = {}
    /\ notifications \in SeqsUpTo(WellFormedEvents, MaxNotifs)
    /\ promiseOfSync = 0
    /\ syncPc = [k \in 1..MaxSync |-> "none"]
    /\ listeners = 0
    /\ calls = EmptyBag
    /\ msgs = <<>>
    /\ reader = [r \in Readers |-> IdleReader]
    /\ publicVapidKey = TRUE
    /\ pushSubscription = FALSE
    /\ op = IdleOp
    /\ opCount = 0
    /\ raced = {}

----------------------------------------------------------------------------
\* syncTriggeredAlerts (alertService.ts:75-99)

\* the call itself: a new promise replaces this._promiseOfSync, and its
\* executor waits for navigator.serviceWorker.ready
SyncTriggeredAlerts(k) ==
    /\ k \in DOMAIN syncPc
    /\ syncPc[k] = "none"
    /\ \A j \in 1..(k - 1) : syncPc[j] # "none"
    /\ promiseOfSync' = k
    /\ syncPc' = [syncPc EXCEPT ![k] = "ready"]
    /\ UNCHANGED <<store, store0, loads, saves, notifications, listeners, calls,
                   msgs, reader, opVars>>

\* serviceWorker.ready resolves: the callback calls getNotifications()
SwReady(k) ==
    /\ k \in DOMAIN syncPc
    /\ syncPc[k] = "ready"
    /\ syncPc' = [syncPc EXCEPT ![k] = "notifs"]
    /\ UNCHANGED <<store, store0, loads, saves, notifications, promiseOfSync,
                   listeners, calls, msgs, reader, opVars>>

\* getNotifications() resolves: the notifications are mapped to events and
\* markAlertsAsTriggered is called on them (alertService.ts:79-87)
GetNotifications(k) ==
    /\ k \in DOMAIN syncPc
    /\ syncPc[k] = "notifs"
    /\ syncPc' = [syncPc EXCEPT ![k] = "mark"]
    /\ LET c == NewCall("sweep", k, notifications)
       IN calls' = IF c.todo = <<>> THEN calls ELSE calls (+) SetToBag({c})
    /\ UNCHANGED <<store, store0, loads, saves, notifications, promiseOfSync,
                   listeners, msgs, reader, opVars>>

\* getNotifications() rejects: the callback's promise rejects, resolve() is
\* never called
GetNotificationsFail(k) ==
    /\ k \in DOMAIN syncPc
    /\ syncPc[k] = "notifs"
    /\ syncPc' = [syncPc EXCEPT ![k] = "failed"]
    /\ UNCHANGED <<store, store0, loads, saves, notifications, promiseOfSync,
                   listeners, calls, msgs, reader, opVars>>

\* mutant: resolve() is called without awaiting markAlertsAsTriggered
SweepDone_NoAwait(k) ==
    /\ k \in DOMAIN syncPc
    /\ syncPc[k] = "mark"
    /\ syncPc' = [syncPc EXCEPT ![k] = "done"]
    /\ listeners' = listeners + 1
    /\ UNCHANGED <<store, store0, loads, saves, notifications, promiseOfSync,
                   calls, msgs, reader, opVars>>

\* markAlertsAsTriggered has returned: resolve(), then the .then callback
\* registers the message listener and the promise kept in _promiseOfSync
\* resolves (alertService.ts:89-98)
SweepDone(k) ==
    /\ k \in DOMAIN syncPc
    /\ syncPc[k] = "mark"
    /\ ~InFlight("sweep", k)
    /\ syncPc' = [syncPc EXCEPT ![k] = "done"]
    /\ listeners' = listeners + 1
    /\ UNCHANGED <<store, store0, loads, saves, notifications, promiseOfSync,
                   calls, msgs, reader, opVars>>

----------------------------------------------------------------------------
\* markAlertsAsTriggered, the loop over the markets (alertService.ts:116-135)

\* workspacesService.getAlerts(market) resolves; an empty list is skipped,
\* otherwise the matching alerts are marked and saveAlerts is called
MarkLoad(src) ==
    \E c \in BagToSet(calls) :
        /\ c.src = src
        /\ c.pc = "load"
        /\ LET m == Head(c.todo)
               alerts == store[m]
           IN /\ loads' = loads \cup {m}
              /\ IF Len(alerts) = 0
                 THEN /\ calls' = Continue(c, [c EXCEPT !.todo = Tail(c.todo)])
                      /\ saves' = saves
                 ELSE /\ calls' = Continue(c,
                            [c EXCEPT !.pc = "save",
                                      !.alerts = MarkPrices(alerts, GroupPrices(c.events, m))])
                      /\ saves' = saves \cup {m}
        /\ UNCHANGED <<store, store0, syncVars, msgs, reader, opVars>>

\* the saveAlerts write lands; the loop goes on to the next market
MarkSave(src) ==
    \E c \in BagToSet(calls) :
        /\ c.src = src
        /\ c.pc = "save"
        /\ store' = [store EXCEPT ![Head(c.todo)] = c.alerts]
        /\ calls' = Continue(c, [c EXCEPT !.pc = "load", !.alerts = <<>>,
                                          !.todo = Tail(c.todo)])
        /\ raced' = IF OpAwaiting /\ Head(c.todo) = OpMarket
                    THEN raced \cup Matched(c.alerts, GroupPrices(c.events, Head(c.todo)))
                    ELSE raced
        /\ UNCHANGED <<store0, loads, saves, syncVars, msgs, reader, publicVapidKey,
                       pushSubscription, op, opCount>>

\* a store call of markAlertsAsTriggered rejects: the call rejects and goes
\* no further; a sweep that rejects never calls resolve()
MarkFail(src) ==
    \E c \in BagToSet(calls) :
        /\ c.src = src
        /\ c.pc # "failed"
        /\ calls' = (calls (-) SetToBag({c})) (+) SetToBag({[c EXCEPT !.pc = "failed"]})
        /\ syncPc' = IF src = "sweep" THEN [syncPc EXCEPT ![c.n] = "failed"] ELSE syncPc
        /\ UNCHANGED <<store, store0, loads, saves, notifications, promiseOfSync,
                       listeners, msgs, reader, opVars>>

----------------------------------------------------------------------------
\* the message listener (alertService.ts:93-97)

\* what one listener does with a message: markAlertsAsTriggered([event.data])
\* is started and not awaited
OnMessage(j, e) == NewCall("live", j, <<e>>)

\* a push message is dispatched to every registered listener; each starts its
\* markAlertsAsTriggered call and emits 'alert' at once (at most max messages)
Deliver(e, max) ==
    /\ Len(msgs) < max
    /\ listeners > 0
    /\ LET j == Len(msgs) + 1
           c == OnMessage(j, e)
       IN /\ msgs' = Append(msgs, [data |-> e, published |-> listeners])
          /\ calls' = IF c.todo = <<>> THEN calls
                      ELSE calls (+) [x \in {c} |-> listeners]
    /\ UNCHANGED <<store, store0, loads, saves, syncVars, reader, opVars>>

----------------------------------------------------------------------------
\* getAlerts (alertService.ts:64-70)

\* mutant: getAlerts that never awaits the promise
GetAlerts_NoAwait(r, m) ==
    /\ reader[r].pc = "idle"
    /\ reader' = [reader EXCEPT ![r] =
                    [pc |-> "read", market |-> m, gate |-> promiseOfSync,
                     result |-> <<>>]]
    /\ UNCHANGED <<store, store0, loads, saves, syncVars, calls, msgs, opVars>>

\* the call: it awaits this._promiseOfSync when there is one, and calls the
\* store otherwise
GetAlerts(r, m) ==
    /\ reader[r].pc = "idle"
    /\ reader' = [reader EXCEPT ![r] =
                    [pc |-> IF promiseOfSync # 0 THEN "wait" ELSE "read",
                     market |-> m, gate |-> promiseOfSync, result |-> <<>>]]
    /\ UNCHANGED <<store, store0, loads, saves, syncVars, calls, msgs, opVars>>

\* mutant: the await goes on as soon as the sweep has been started, as if
\* the promise resolved without waiting for markAlertsAsTriggered
GetAlertsResume_Early(r) ==
    /\ reader[r].pc = "wait"
    /\ reader[r].gate \in DOMAIN syncPc
    /\ syncPc[reader[r].gate] \in {"mark", "done"}
    /\ reader' = [reader EXCEPT ![r].pc = "read"]
    /\ UNCHANGED <<store, store0, loads, saves, syncVars, calls, msgs, opVars>>

\* the awaited promise has resolved
GetAlertsResume(r) ==
    /\ reader[r].pc = "wait"
    /\ reader[r].gate \in DOMAIN syncPc
    /\ syncPc[reader[r].gate] = "done"
    /\ reader' = [reader EXCEPT ![r].pc = "read"]
    /\ UNCHANGED <<store, store0, loads, saves, syncVars, calls, msgs, opVars>>

\* workspacesService.getAlerts(market) reads the store and the call returns
GetAlertsRead(r) ==
    /\ reader[r].pc = "read"
    /\ reader' = [reader EXCEPT ![r].pc = "done", ![r].result = store[reader[r].market]]
    /\ UNCHANGED <<store, store0, loads, saves, syncVars, calls, msgs, opVars>>

----------------------------------------------------------------------------
\* validateAlert (alertService.ts:211-230)

\* what getPrice resolves to: 0 stands for null (no entry for the market),
\* which `if (marketPrice)` treats like a price of 0
FeedPrices == {0, 1, 4}

\* prices the user asks for in create and move
OpPrices == {1, 2, 3}

\* (price / marketPrice - 1) * 100 compared with a bound, for marketPrice > 0
PercentAbove(price, marketPrice, bound) ==
    (price - marketPrice) * 100 > bound * marketPrice

PercentBelow(price, marketPrice, bound) ==
    (price - marketPrice) * 100 < bound * marketPrice

\* mutant: a deviation of exactly 100% is rejected as well
ValidateAlert_AtBound(price, marketPrice) ==
    IF marketPrice # 0
    THEN ~(\/ price < 0
           \/ ~PercentBelow(price, marketPrice, 100)
           \/ PercentBelow(price, marketPrice, -50))
    ELSE TRUE

ValidateAlert(price, marketPrice) ==
    IF marketPrice # 0
    THEN ~(\/ price < 0
           \/ PercentAbove(price, marketPrice, 100)
           \/ PercentBelow(price, marketPrice, -50))
    ELSE TRUE

----------------------------------------------------------------------------
\* What an operation does to the outside, in order (op.log).

LogFetch == [what |-> "fetch", tag |-> "", price |-> 0, newPrice |-> 0, alerts |-> <<>>]
LogSave(alerts) ==
    [what |-> "save", tag |-> "", price |-> 0, newPrice |-> 0, alerts |-> alerts]
LogEmit(tag, price, newPrice) ==
    [what |-> "emit", tag |-> tag, price |-> price, newPrice |-> newPrice, alerts |-> <<>>]
LogNotice(tag) ==
    [what |-> "notice", tag |-> tag, price |-> 0, newPrice |-> 0, alerts |-> <<>>]

\* the caller's list handed to the operation o as marketAlerts
ListOf(o) == reader[o.r].result

\* the position in `alerts` of the record with timestamp ts, 0 if it is not there
IndexOf(alerts, ts) ==
    IF \E i \in DOMAIN alerts : alerts[i].ts = ts
    THEN CHOOSE i \in DOMAIN alerts : alerts[i].ts = ts
    ELSE 0

\* marketAlerts.filter(alert => alert.price !== price)
FilterPrice(alerts, price) == SelectSeq(alerts, LAMBDA a : a.price # price)

CanStartOp(r) ==
    /\ op.pc \in {"idle", "done"}
    /\ opCount < MaxOps
    /\ reader[r].pc = "done"

StartOp(kind, r, ts, price, withList, was, list) ==
    [IdleOp EXCEPT !.pc = "sub", !.kind = kind, !.r = r, !.ts = ts, !.price = price,
                   !.withList = withList, !.was = <<was>>, !.list0 = list]

----------------------------------------------------------------------------
\* createAlert (alertService.ts:281-311)

\* the call: the alert is pushed on the list, then subscribe -> toggleAlert ->
\* getPushSubscription is awaited
CreateAlert(r, price, active) ==
    /\ CanStartOp(r)
    /\ LET created == Alert(10 + opCount, reader[r].market, price, active, FALSE)
           list == Append(reader[r].result, created)
       IN /\ reader' = [reader EXCEPT ![r].result = list]
          /\ op' = StartOp("create", r, created.ts, price, TRUE, created,
                           reader[r].result)
    /\ opCount' = opCount + 1
    /\ raced' = {}
    /\ UNCHANGED <<store, store0, loads, saves, syncVars, calls, msgs,
                   publicVapidKey, pushSubscription>>

\* mutant: the save sits in the .then of createAlert, so that a rejected
\* subscribe skips it
CreateFinish_SaveInThen(o, data) ==
    LET thrown == data \in {"undef", "throw"}
        i == IndexOf(ListOf(o), o.ts)
        list == IF thrown THEN ListOf(o)
                ELSE [ListOf(o) EXCEPT ![i].active = (data # "error")]
    IN /\ reader' = [reader EXCEPT ![o.r].result = list]
       /\ op' = IF thrown
                THEN [o EXCEPT !.pc = "done",
                               !.log = o.log \o <<LogNotice("error"),
                                                  LogEmit("add", list[i].price, 0)>>]
                ELSE [o EXCEPT !.pc = "write", !.saving = list,
                               !.log = o.log \o <<LogSave(list),
                                                  LogEmit("add", list[i].price, 0)>>]

\* subscribe (165-176) and the rest of createAlert (289-310) once toggleAlert
\* has settled with `data`: "undef" (returned undefined), "throw" (rejected),
\* "ok", "notfound" (a body without error) or "error" ({error})
CreateFinish(o, data) ==
    LET thrown == data \in {"undef", "throw"}
        \* subscribe: `data.error` of undefined throws; a notice on success
        log1 == IF ~thrown /\ data # "error"
                THEN Append(o.log, LogNotice("success")) ELSE o.log
        \* createAlert: .then sets active, .catch shows the error notice
        log2 == IF thrown THEN Append(log1, LogNotice("error")) ELSE log1
        i == IndexOf(ListOf(o), o.ts)
        list == IF thrown THEN ListOf(o)
                ELSE [ListOf(o) EXCEPT ![i].active = (data # "error")]
    IN /\ reader' = [reader EXCEPT ![o.r].result = list]
       /\ op' = [o EXCEPT !.pc = "write", !.saving = list,
                          !.log = log2 \o <<LogSave(list),
                                            LogEmit("add", list[i].price, 0)>>]

----------------------------------------------------------------------------
\* removeAlert (alertService.ts:375-402)

\* the tail of removeAlert (390-401): the event, then the save of the
\* filtered list when a list was supplied
RemoveTail(o, log) ==
    LET i == IndexOf(ListOf(o), o.ts)
        price == ListOf(o)[i].price
        filtered == FilterPrice(ListOf(o), price)
    IN /\ reader' = reader
       /\ op' = IF o.withList
                THEN [o EXCEPT !.pc = "write", !.saving = filtered,
                               !.log = log \o <<LogEmit("remove", price, 0),
                                                LogSave(filtered)>>]
                ELSE [o EXCEPT !.pc = "done",
                               !.log = Append(log, LogEmit("remove", price, 0))]

\* unsubscribe (178-195) and the catch of removeAlert (379-387) once
\* toggleAlert has settled with `data`
RemoveFinish(o, data) ==
    LET i == IndexOf(ListOf(o), o.ts)
        log == CASE data \in {"undef", "throw"} ->
                       \* `data.alert` of undefined throws; `alert` is window.alert
                       IF ListOf(o)[i].active THEN Append(o.log, LogNotice("error"))
                       ELSE o.log
                 [] data = "ok" -> Append(o.log, LogNotice("success"))
                 [] data = "notfound" -> Append(o.log, LogNotice("info"))
                 [] OTHER -> o.log
    IN RemoveTail(o, log)

\* mutant: unsubscribe is awaited for a triggered alert as well
RemoveAlert_AlwaysUnsub(r, i, withList) ==
    /\ CanStartOp(r)
    /\ i \in DOMAIN reader[r].result
    /\ LET a == reader[r].result[i]
       IN /\ reader' = reader
          /\ op' = StartOp("remove", r, a.ts, a.price, withList, a, reader[r].result)
    /\ opCount' = opCount + 1
    /\ raced' = {}
    /\ UNCHANGED <<store, store0, loads, saves, syncVars, calls, msgs,
                   publicVapidKey, pushSubscription>>

\* the call: a triggered alert skips unsubscribe
RemoveAlert(r, i, withList) ==
    /\ CanStartOp(r)
    /\ i \in DOMAIN reader[r].result
    /\ LET a == reader[r].result[i]
           o == StartOp("remove", r, a.ts, a.price, withList, a, reader[r].result)
       IN IF a.triggered
          THEN RemoveTail(o, <<>>)
          ELSE /\ reader' = reader
               /\ op' = o
    /\ opCount' = opCount + 1
    /\ raced' = {}
    /\ UNCHANGED <<store, store0, loads, saves, syncVars, calls, msgs,
                   publicVapidKey, pushSubscription>>

----------------------------------------------------------------------------
\* moveAlert (alertService.ts:313-373)

\* the call: getPushSubscription is awaited
MoveAlert(r, i, newPrice) ==
    /\ CanStartOp(r)
    /\ i \in DOMAIN reader[r].result
    /\ LET a == reader[r].result[i]
       IN op' = StartOp("move", r, a.ts, newPrice, TRUE, a, reader[r].result)
    /\ opCount' = opCount + 1
    /\ raced' = {}
    /\ UNCHANGED <<store, store0, loads, saves, syncVars, calls, msgs, reader,
                   publicVapidKey, pushSubscription>>

\* mutant: the record is changed before the event is emitted
MoveFinish_EmitLate(o, active) ==
    LET i == IndexOf(ListOf(o), o.ts)
        list == [ListOf(o) EXCEPT ![i].triggered = FALSE, ![i].active = active,
                                  ![i].price = o.price]
    IN /\ reader' = [reader EXCEPT ![o.r].result = list]
       /\ op' = [o EXCEPT !.pc = "write", !.saving = list,
                          !.log = o.log \o <<LogEmit("move", list[i].price, o.price),
                                             LogSave(list)>>]

\* moveAlert after the fetch chain has settled with `active` (359-372): the
\* event, then the record is changed and the list saved
MoveFinish(o, active) ==
    LET i == IndexOf(ListOf(o), o.ts)
        old == ListOf(o)[i]
        list == [ListOf(o) EXCEPT ![i].triggered = FALSE, ![i].active = active,
                               ![i].price = o.price]
    IN /\ reader' = [reader EXCEPT ![o.r].result = list]
       /\ op' = [o EXCEPT !.pc = "write", !.saving = list,
                          !.log = o.log \o <<LogEmit("move", old.price, o.price),
                                             LogSave(list)>>]

\* mutant: the early return is missing, the move goes on without a fetch
MoveReturn_GoesOn(o) ==
    LET i == IndexOf(ListOf(o), o.ts)
        list == [ListOf(o) EXCEPT ![i].triggered = FALSE, ![i].active = FALSE,
                                  ![i].price = o.price]
    IN /\ reader' = [reader EXCEPT ![o.r].result = list]
       /\ op' = [o EXCEPT !.pc = "write", !.saving = list,
                          !.log = o.log \o <<LogEmit("move", ListOf(o)[i].price, o.price),
                                             LogSave(list)>>]

\* moveAlert returns early (321-327): nothing more is done
MoveReturn(o) ==
    /\ reader' = reader
    /\ op' = [o EXCEPT !.pc = "done"]

----------------------------------------------------------------------------
\* The awaited steps shared by the operations.

\* toggleAlert has settled with `data` (create and remove); op.toggle keeps
\* what it settled with
ToggleSettled(o, data) ==
    LET t == [o EXCEPT !.toggle = data]
    IN IF t.kind = "create" THEN CreateFinish(t, data) ELSE RemoveFinish(t, data)

\* getPushSubscription settles (alertService.ts:138-163): nothing without a
\* key, the cached subscription, or else a new one from pushManager.subscribe
\* ("ok"), its rejection ("throw"), or nothing where the platform has no
\* serviceWorker ("none")
GetPushSubscription(out) ==
    /\ op.pc = "sub"
    /\ out = IF ~publicVapidKey THEN "none"
             ELSE IF pushSubscription THEN "ok" ELSE out
    /\ pushSubscription' = (pushSubscription \/ out = "ok")
    /\ LET o == [op EXCEPT !.sub = out]
       IN CASE out = "ok" -> /\ op' = [o EXCEPT !.pc = "validate"]
                             /\ reader' = reader
            [] out = "none" ->
                 \* alertService.ts:241-243, 321-323
                 IF o.kind = "move" THEN MoveReturn(o) ELSE ToggleSettled(o, "undef")
            [] OTHER ->
                 \* the rejection passes through toggleAlert and moveAlert
                 IF o.kind = "move" THEN MoveReturn(o) ELSE ToggleSettled(o, "throw")
    /\ UNCHANGED <<store, store0, loads, saves, syncVars, calls, msgs,
                   publicVapidKey, opCount, raced>>

\* the price feed publishes, getPrice resolves to marketPrice and
\* validateAlert returns (alertService.ts:245-247, 325-327); when it accepts,
\* the fetch is issued
Validate(marketPrice) ==
    /\ op.pc = "validate"
    /\ IF ValidateAlert(op.price, marketPrice)
       THEN /\ op' = [op EXCEPT !.pc = "fetch", !.valid = "accept",
                                !.marketPrice = <<marketPrice>>,
                                !.log = Append(op.log, LogFetch)]
            /\ reader' = reader
       ELSE LET o == [op EXCEPT !.valid = "reject", !.marketPrice = <<marketPrice>>]
            IN IF o.kind = "move" THEN MoveReturn(o) ELSE ToggleSettled(o, "undef")
    /\ UNCHANGED <<store, store0, loads, saves, syncVars, calls, msgs,
                   publicVapidKey, pushSubscription, opCount, raced>>

\* mutant: the fetch chain of toggleAlert without its catch
FetchSettled_NoCatch(res) ==
    /\ op.pc = "fetch"
    /\ LET o == [op EXCEPT !.remote = res]
       IN IF o.kind = "move" THEN MoveFinish(o, res # "error")
          ELSE ToggleSettled(o, IF res = "error" THEN "throw" ELSE res)
    /\ UNCHANGED <<store, store0, loads, saves, syncVars, calls, msgs,
                   publicVapidKey, pushSubscription, opCount, raced>>

\* the fetch chain settles (alertService.ts:266-278, 345-357): a body without
\* error ("ok", or "notfound" when it carries no alert), or a failure that
\* the catch turns into {error} / false
FetchSettled(res) ==
    /\ op.pc = "fetch"
    /\ LET o == [op EXCEPT !.remote = res]
       IN IF o.kind = "move" THEN MoveFinish(o, res # "error")
          ELSE ToggleSettled(o, res)
    /\ UNCHANGED <<store, store0, loads, saves, syncVars, calls, msgs,
                   publicVapidKey, pushSubscription, opCount, raced>>

\* the write of workspacesService.saveAlerts lands
StoreWrite ==
    /\ op.pc = "write"
    /\ store' = [store EXCEPT ![OpMarket] = op.saving]
    /\ op' = [op EXCEPT !.pc = "done"]
    /\ UNCHANGED <<store0, loads, saves, syncVars, calls, msgs, reader,
                   publicVapidKey, pushSubscription, opCount, raced>>

----------------------------------------------------------------------------

Next ==
    \/ \E k \in 1..MaxSync : SyncTriggeredAlerts(k)
    \/ \E k \in 1..MaxSync : SwReady(k)
    \/ \E k \in 1..MaxSync : GetNotifications(k)
    \/ \E k \in 1..MaxSync : GetNotificationsFail(k)
    \/ \E k \in 1..MaxSync : SweepDone(k)
    \/ \E src \in Sources : MarkLoad(src)
    \/ \E src \in Sources : MarkSave(src)
    \/ \E src \in Sources : MarkFail(src)
    \/ \E e \in LiveEvents : Deliver(e, MaxMsgs)
    \/ \E r \in Readers, m \in Markets : GetAlerts(r, m)
    \/ \E r \in Readers : GetAlertsResume(r)
    \/ \E r \in Readers : GetAlertsRead(r)

Spec == Init /\ [][Next]_vars

\* The same engine when syncTriggeredAlerts is invoked again and messages
\* come in bursts.
InitLive ==
    /\ store = StartStore
    /\ store0 = store
    /\ loads = {}
    /\ saves = {}
    /\ notifications \in SeqsUpTo(WellFormedEvents, MaxNotifs)
    /\ promiseOfSync = 0
    /\ syncPc = [k \in 1..MaxResync |-> "none"]
    /\ listeners = 0
    /\ calls = EmptyBag
    /\ msgs = <<>>
    /\ reader = [r \in Readers |-> IdleReader]
    /\ publicVapidKey = TRUE
    /\ pushSubscription = FALSE
    /\ op = IdleOp
    /\ opCount = 0
    /\ raced = {}

NextLive ==
    \/ \E k \in 1..MaxResync : SyncTriggeredAlerts(k)
    \/ \E k \in 1..MaxResync : SwReady(k)
    \/ \E k \in 1..MaxResync : GetNotifications(k)
    \/ \E k \in 1..MaxResync : GetNotificationsFail(k)
    \/ \E k \in 1..MaxResync : SweepDone(k)
    \/ \E src \in Sources : MarkLoad(src)
    \/ \E src \in Sources : MarkSave(src)
    \/ \E src \in Sources : MarkFail(src)
    \/ \E e \in LiveEvents : Deliver(e, MaxBurst)
    \/ \E r \in Readers, m \in Markets : GetAlerts(r, m)
    \/ \E r \in Readers : GetAlertsResume(r)
    \/ \E r \in Readers : GetAlertsRead(r)

SpecLive == InitLive /\ [][NextLive]_vars

----------------------------------------------------------------------------
\* Properties of the reconciliation (Spec).

\* the well-formed recovered events of market m
Recovered(m) == {e \in Range(notifications) : WellFormed(e) /\ e.market = m}

\* C1: a getAlerts call made after syncTriggeredAlerts was invoked reads the
\* store only once the sweep of the promise it awaits has been applied and
\* saved, and the list it returns shows triggered = true for every alert
\* matched by a recovered notification.
C1_ReadsAfterSweep ==
    \A r \in Readers :
        (reader[r].gate # 0 /\ reader[r].pc \in {"read", "done"}) =>
            /\ syncPc[reader[r].gate] = "done"
            /\ ~InFlight("sweep", reader[r].gate)
            /\ reader[r].pc = "done" =>
                 \A e \in Recovered(reader[r].market) :
                    LET i == FindAlert(reader[r].result, e.price)
                    IN i # 0 => reader[r].result[i].triggered

\* a call made after the sync has returned an alert that the sweep marked
C1_Witness ==
    \E r \in Readers :
        /\ reader[r].gate # 0
        /\ reader[r].pc = "done"
        /\ \E e \in Recovered(reader[r].market) :
              LET i == FindAlert(reader[r].result, e.price)
              IN /\ i # 0
                 /\ reader[r].result[i].triggered
                 /\ ~store0[reader[r].market][i].triggered

Handled(j) == j \in DOMAIN msgs /\ ~InFlight("live", j)

\* C3: when two live messages for two different stored alerts of one market
\* are handled by the one registered listener, both alerts are triggered in
\* the store once both handlers have returned.
C3_BothTriggered ==
    \A j1, j2 \in DOMAIN msgs :
        LET e1 == msgs[j1].data
            e2 == msgs[j2].data
            i1 == FindAlert(store0[e1.market], e1.price)
            i2 == FindAlert(store0[e2.market], e2.price)
        IN (/\ j1 < j2
            /\ WellFormed(e1) /\ WellFormed(e2)
            /\ e1.market = e2.market /\ e1.price # e2.price
            /\ i1 # 0 /\ i2 # 0
            /\ \A k \in DOMAIN syncPc : k > 1 => syncPc[k] = "none"
            /\ Handled(j1) /\ Handled(j2))
           => /\ store[e1.market][i1].triggered
              /\ store[e1.market][i2].triggered

\* C5: each live message is published on topic alert exactly once and
\* applied by one markAlertsAsTriggered call, however often
\* syncTriggeredAlerts was invoked.
C5_PublishedOnce ==
    /\ \A j \in DOMAIN msgs : msgs[j].published = 1
    /\ \A c \in BagToSet(calls) : c.src = "live" => CopiesIn(c, calls) = 1

----------------------------------------------------------------------------
\* markAlertsAsTriggered run on its own (SpecMark): the sweep of one sync on
\* any stored lists and any batch of events, nothing else running.

\* the lists a market can hold: up to n alerts of any price, triggered or not
StoredLists(m, base, n) ==
    UNION {{[i \in 1..k |-> Alert(base + i, m, ps[i], TRUE, ts[i])] :
                ps \in [1..k -> Prices], ts \in [1..k -> BOOLEAN]} : k \in 0..n}

InitMark ==
    /\ store \in {[m \in Markets |-> IF m = "m1" THEN l1 ELSE l2] :
                     l1 \in StoredLists("m1", 0, MaxStored),
                     l2 \in StoredLists("m2", 10, 1)}
    /\ store0 = store
    /\ loads = {}
    /\ saves = {}
    /\ notifications \in SeqsUpTo(Events, MaxBatch)
    /\ promiseOfSync = 1
    /\ syncPc = <<"notifs">>
    /\ listeners = 0
    /\ calls = EmptyBag
    /\ msgs = <<>>
    /\ reader = [r \in Readers |-> IdleReader]
    /\ publicVapidKey = TRUE
    /\ pushSubscription = FALSE
    /\ op = IdleOp
    /\ opCount = 0
    /\ raced = {}

NextMark ==
    \/ GetNotifications(1)
    \/ MarkLoad("sweep")
    \/ MarkSave("sweep")
    \/ SweepDone(1)

SpecMark == InitMark /\ [][NextMark]_vars

\* alert i of the list is the first one at the price of the event e
FirstAt(alerts, i, e) ==
    /\ alerts[i].price = e.price
    /\ \A j \in 1..(i - 1) : alerts[j].price # e.price

\* C6: after markAlertsAsTriggered(events) has run alone, in every market the
\* first stored alert at the price of a well-formed event is triggered and is
\* otherwise as before, every other alert is as before and in place, and a
\* market that no well-formed event names was neither loaded nor saved.
C6_MarksFirstMatchOnly ==
    syncPc[1] = "done" =>
        \A m \in Markets :
            /\ Len(store[m]) = Len(store0[m])
            /\ \A i \in DOMAIN store0[m] :
                  store[m][i] =
                     IF \E e \in Recovered(m) : FirstAt(store0[m], i, e)
                     THEN [store0[m][i] EXCEPT !.triggered = TRUE]
                     ELSE store0[m][i]
            /\ Recovered(m) = {} => (m \notin loads /\ m \notin saves /\ store[m] = store0[m])

\* the call has marked the first of two alerts of one price and left the
\* second untriggered
C6_Witness ==
    /\ syncPc[1] = "done"
    /\ \E m \in Markets : \E i, j \in DOMAIN store[m] :
          /\ i < j
          /\ store[m][i].price = store[m][j].price
          /\ store[m][i].triggered /\ ~store0[m][i].triggered
          /\ ~store[m][j].triggered

----------------------------------------------------------------------------
\* The operations on a running service: the first sync has completed on an
\* empty set of notifications, so one listener is registered.
InitOps ==
    /\ store = StartStore
    /\ store0 = store
    /\ loads = {}
    /\ saves = {}
    /\ notifications = <<>>
    /\ promiseOfSync = 1
    /\ syncPc = <<"done">>
    /\ listeners = 1
    /\ calls = EmptyBag
    /\ msgs = <<>>
    /\ reader = [r \in Readers |-> IdleReader]
    /\ publicVapidKey \in BOOLEAN
    /\ pushSubscription = FALSE
    /\ op = IdleOp
    /\ opCount = 0
    /\ raced = {}

NextOps ==
    \/ \E r \in Readers, m \in Markets : GetAlerts(r, m)
    \/ \E r \in Readers : GetAlertsResume(r)
    \/ \E r \in Readers : GetAlertsRead(r)
    \/ \E r \in Readers, p \in OpPrices, a \in BOOLEAN : CreateAlert(r, p, a)
    \/ \E r \in Readers, i \in 1..3, p \in OpPrices : MoveAlert(r, i, p)
    \/ \E r \in Readers, i \in 1..3, w \in BOOLEAN : RemoveAlert(r, i, w)
    \/ \E out \in {"none", "ok", "throw"} : GetPushSubscription(out)
    \/ \E c \in FeedPrices : Validate(c)
    \/ \E res \in {"ok", "notfound", "error"} : FetchSettled(res)
    \/ StoreWrite
    \/ \E e \in LiveEvents : Deliver(e, MaxOpMsgs)
    \/ MarkLoad("live")
    \/ MarkSave("live")

SpecOps == InitOps /\ [][NextOps]_vars

----------------------------------------------------------------------------
\* Properties of the operations (SpecOps).

\* the positions of the log entries of one kind
Entries(what) == {i \in DOMAIN op.log : op.log[i].what = what}

\* the operation has run to the end of its code (its save may still be landing)
OpEnded == op.pc \in {"write", "done"}

\* the alert the operation is about, as it stands in the caller's list
OpAlert == ListOf(op)[IndexOf(ListOf(op), op.ts)]

\* C4: a trigger that markAlertsAsTriggered has saved while a createAlert or
\* removeAlert on another alert of the market was in flight is still in the
\* store once the operation and the handlers have completed.
C4_TriggerKept ==
    (/\ op.kind \in {"create", "remove"}
     /\ op.pc = "done"
     /\ calls = EmptyBag
     /\ Len(msgs) = 1)
    => \A i \in DOMAIN store[OpMarket] :
          (store[OpMarket][i].ts \in raced /\ store[OpMarket][i].ts # op.ts)
             => store[OpMarket][i].triggered

\* C7: createAlert has appended the alert; when it ends it has issued one
\* saveAlerts whose list holds the new alert and after it one alert event
\* with add:true; active is the remote success when the registration
\* returned, and is as the alert was created in every other outcome.
C7_CreatePersistsAndEmits ==
    op.kind = "create" =>
        /\ IndexOf(ListOf(op), op.ts) = Len(ListOf(op))
        /\ OpEnded =>
             /\ \E i \in DOMAIN op.log : \E j \in DOMAIN op.log :
                   /\ Entries("save") = {i}
                   /\ Entries("emit") = {j}
                   /\ i < j
                   /\ op.log[j].tag = "add"
                   /\ op.log[j].price = op.price
                   /\ IndexOf(op.log[i].alerts, op.ts) # 0
                   /\ op.log[i].alerts = ListOf(op)
                   /\ op.saving = ListOf(op)
             /\ OpAlert.active = IF op.remote = "none" THEN op.was[1].active
                                 ELSE op.remote # "error"
             /\ (~op.was[1].active) => (OpAlert.active <=> op.remote \in {"ok", "notfound"})

\* a createAlert whose subscription could not be acquired has saved and ended
C7_Witness ==
    /\ op.kind = "create"
    /\ op.pc = "done"
    /\ op.sub = "throw"
    /\ IndexOf(store[OpMarket], op.ts) # 0

\* C8: without a push key no operation issues a fetch or shows an error
\* notice.
C8_NoKeySilent ==
    ~publicVapidKey =>
        \A i \in DOMAIN op.log :
            /\ op.log[i].what # "fetch"
            /\ ~(op.log[i].what = "notice" /\ op.log[i].tag = "error")

\* C9 as stated: when validateAlert rejects, the operation issues no fetch
\* and no saveAlerts and leaves the caller's list as it was before the call.
C9_RejectAbortsAll ==
    op.valid = "reject" =>
        /\ Entries("fetch") = {}
        /\ Entries("save") = {}
        /\ ListOf(op) = op.list0

\* C9 as amended: when validateAlert rejects, no operation issues a fetch;
\* moveAlert does nothing more (no event, no save, the list as it was);
\* createAlert, which appended the alert before validating, still saves the
\* list with the new alert as it was created and emits the add event;
\* removeAlert still emits the remove event and saves the filtered list when
\* a list was supplied.
C9_RejectSkipsFetchOnly ==
    op.valid = "reject" =>
        /\ Entries("fetch") = {}
        /\ op.kind = "move" =>
             /\ op.log = <<>>
             /\ op.pc = "done"
             /\ ListOf(op) = op.list0
        /\ op.kind = "create" =>
             /\ ListOf(op) = Append(op.list0, op.was[1])
             /\ \E i \in DOMAIN op.log :
                   /\ Entries("save") = {i}
                   /\ op.log[i].alerts = Append(op.list0, op.was[1])
             /\ \E j \in Entries("emit") : op.log[j].tag = "add"
        /\ op.kind = "remove" =>
             /\ ListOf(op) = op.list0
             /\ \E j \in Entries("emit") : op.log[j].tag = "remove"
             /\ op.withList =>
                  \E i \in DOMAIN op.log :
                     /\ Entries("save") = {i}
                     /\ op.log[i].alerts = FilterPrice(op.list0, op.was[1].price)

\* a createAlert whose price was rejected has been saved to the store
C9_Witness ==
    /\ op.kind = "create"
    /\ op.valid = "reject"
    /\ op.pc = "done"
    /\ IndexOf(store[OpMarket], op.ts) # 0

\* C10: a moveAlert that got its subscription and passed validation, on the
\* only alert at the old price of the list: it ends with one saveAlerts in
\* which the moved alert has the new price, triggered = false and active
\* equal to the remote success, and in which no alert has the old price (a
\* new price other than the old one); the event {price: old, newPrice} was
\* emitted before the record changed.
C10_MoveSavesMovedAlert ==
    (/\ op.kind = "move"
     /\ op.valid = "accept"
     /\ OpEnded
     /\ \A i \in DOMAIN op.list0 :
           op.list0[i].price = op.was[1].price => op.list0[i].ts = op.ts)
    => \E i \in DOMAIN op.log : \E j \in DOMAIN op.log :
          LET saved == op.log[i].alerts
              k == IndexOf(saved, op.ts)
          IN /\ Entries("save") = {i}
             /\ Entries("emit") = {j}
             /\ j < i
             /\ op.log[j].tag = "move"
             /\ op.log[j].price = op.was[1].price
             /\ op.log[j].newPrice = op.price
             /\ op.remote # "none"
             /\ k # 0
             /\ saved[k] = [op.was[1] EXCEPT !.price = op.price,
                                             !.triggered = FALSE,
                                             !.active = (op.remote # "error")]
             /\ \A n \in DOMAIN saved : n # k => saved[n] = op.list0[n]
             /\ Len(saved) = Len(op.list0)
             /\ op.price # op.was[1].price =>
                   \A n \in DOMAIN saved : saved[n].price # op.was[1].price

\* a triggered alert has been moved to another price while the remote call
\* failed, and the save has landed
C10_Witness ==
    /\ op.kind = "move"
    /\ op.pc = "done"
    /\ op.remote = "error"
    /\ op.was[1].triggered
    /\ op.price # op.was[1].price
    /\ IndexOf(FilterPrice(store[OpMarket], op.was[1].price), op.ts) # 0

\* C11: removeAlert on a triggered alert acquires no subscription and issues
\* no fetch; when removeAlert ends, whatever became of the unsubscription, it
\* has emitted one alert event, with remove:true and the removed price, and,
\* when a list was supplied, issued one saveAlerts after it whose list has no
\* alert at the removed price and holds every other alert of the list as it
\* was; without a list it saves nothing.
C11_RemoveEmitsAndSaves ==
    op.kind = "remove" =>
        /\ op.was[1].triggered =>
             /\ Entries("fetch") = {}
             /\ op.sub = "pending"
             /\ op.valid = "pending"
        /\ OpEnded =>
             /\ \E j \in DOMAIN op.log :
                   /\ Entries("emit") = {j}
                   /\ op.log[j].tag = "remove"
                   /\ op.log[j].price = op.was[1].price
                   /\ \A i \in Entries("save") : j < i
             /\ ~op.withList => Entries("save") = {}
             /\ op.withList =>
                  \E i \in DOMAIN op.log :
                     LET saved == op.log[i].alerts
                         others == {a \in Range(op.list0) : a.price # op.was[1].price}
                     IN /\ Entries("save") = {i}
                        /\ saved = op.saving
                        /\ \A n \in DOMAIN saved : saved[n].price # op.was[1].price
                        /\ Range(saved) = others
                        /\ Len(saved) = Cardinality(others)

\* a triggered alert has been removed with its list: the store holds the
\* list without it, next to an alert of another price
C11_Witness ==
    /\ op.kind = "remove"
    /\ op.pc = "done"
    /\ op.withList
    /\ op.was[1].triggered
    /\ IndexOf(store[OpMarket], op.ts) = 0
    /\ store[OpMarket] # <<>>

\* toggleAlert was called by the operation and has settled
Toggled == op.kind \in {"create", "remove"} /\ op.toggle # "none"

\* C12 as stated: the promise of toggleAlert never rejects, and when the
\* subscription was not acquired, validation rejected or the network call
\* failed, it resolves to an {error} value.
C12_AlwaysResolvesWithError ==
    Toggled =>
        /\ op.toggle # "throw"
        /\ (op.sub # "ok" \/ op.valid = "reject" \/ op.remote = "error")
              => op.toggle = "error"

\* C12 as amended: once the fetch is issued toggleAlert always resolves, to
\* the body or, for a backend {error} payload and for a network failure, to
\* {error}; when pushManager.subscribe rejects, toggleAlert rejects; without
\* a subscription and when validation rejects, it resolves to undefined.
C12_CatchesFetchOnly ==
    Toggled =>
        /\ op.remote # "none" =>
              (op.toggle = op.remote /\ op.sub = "ok" /\ op.valid = "accept")
        /\ op.sub = "throw" => op.toggle = "throw"
        /\ (op.sub = "none" \/ op.valid = "reject") => op.toggle = "undef"
        /\ op.toggle = "error" <=> op.remote = "error"

\* the unsubscription of removeAlert has failed on the network and
\* toggleAlert has resolved to {error}
C12_Witness ==
    /\ op.kind = "remove"
    /\ op.remote = "error"
    /\ op.toggle = "error"
    /\ OpEnded

----------------------------------------------------------------------------
\* validateAlert over a range of asked and market prices (SpecValidate): the
\* operations of SpecOps with no live message.

AskPrices == (0 - MaxAsk)..MaxAsk

\* what getPrice resolves to: a market price, or 0 for null
FeedRange == 0..MaxFeed

NextValidate ==
    \/ \E r \in Readers, m \in Markets : GetAlerts(r, m)
    \/ \E r \in Readers : GetAlertsResume(r)
    \/ \E r \in Readers : GetAlertsRead(r)
    \/ \E r \in Readers, p \in AskPrices, a \in BOOLEAN : CreateAlert(r, p, a)
    \/ \E r \in Readers, i \in 1..3, p \in AskPrices : MoveAlert(r, i, p)
    \/ \E r \in Readers, i \in 1..3, w \in BOOLEAN : RemoveAlert(r, i, w)
    \/ \E out \in {"none", "ok", "throw"} : GetPushSubscription(out)
    \/ \E c \in FeedRange : Validate(c)
    \/ \E res \in {"ok", "notfound", "error"} : FetchSettled(res)
    \/ StoreWrite

SpecValidate == InitOps /\ [][NextValidate]_vars

\* validateAlert has returned for the operation
Validated == op.valid # "pending"

\* C13: validateAlert rejects every negative price, whatever the price feed
\* published for the market, no entry included.
C13_NegativeRejected ==
    (Validated /\ op.price < 0) => op.valid = "reject"

\* C14: for a known positive market price c, validateAlert returns false
\* exactly when price < 0, price > 2c or 2 * price < c; when the market price
\* is unknown it returns true for every price.
C14_RejectsExactlyOutOfBand ==
    Validated =>
        LET c == op.marketPrice[1]
            price == op.price
        IN /\ c > 0 => (op.valid = "reject" <=>
                           (price < 0 \/ price > 2 * c \/ 2 * price < c))
           /\ c = 0 => op.valid = "accept"

\* a price of exactly twice the market price has been accepted
C14_Witness ==
    /\ Validated
    /\ op.marketPrice[1] > 1
    /\ op.price = 2 * op.marketPrice[1]
    /\ op.valid = "accept"

\* Progress of the operations: the platform settles every subscription
\* request and every fetch and the store lands every write, while nothing
\* makes the price feed publish ('prices' is emitted only while trades come
\* in), so Validate carries no fairness.
SpecValidateLive ==
    /\ InitOps
    /\ [][NextValidate]_vars
    /\ WF_vars(\E out \in {"none", "ok", "throw"} : GetPushSubscription(out))
    /\ WF_vars(\E res \in {"ok", "notfound", "error"} : FetchSettled(res))
    /\ WF_vars(StoreWrite)

\* C15: an operation that has called validateAlert gets its answer and runs
\* to completion, also when the price feed never publishes a snapshot.
C15_ValidateTerminates ==
    (op.pc = "validate") ~> (op.pc = "done")

----------------------------------------------------------------------------
\* The two reconciliation paths compared.

\* the store after one markAlertsAsTriggered(events) call has run to its end
\* on the store st with no other writer (alertService.ts:101-136)
ApplySweep(st, events) ==
    [m \in Markets |->
        IF m \in Range(GroupMarkets(events)) /\ Len(st[m]) # 0
        THEN MarkPrices(st[m], GroupPrices(events, m))
        ELSE st[m]]

\* the payloads of the live messages delivered, in order
Payloads == [j \in DOMAIN msgs |-> msgs[j].data]

\* C16: the events handed to the one listener as live messages leave the
\* store as the sweep leaves it when it is handed the same events as
\* recovered notifications on the same store.
C16_PathParity ==
    (/\ notifications = <<>>
     /\ \A k \in DOMAIN syncPc : k > 1 => syncPc[k] = "none"
     /\ msgs # <<>>
     /\ \A j \in DOMAIN msgs : Handled(j))
    => store = ApplySweep(store0, Payloads)

\* an event that names a market and carries a number as its price
Applicable(e) == e.market \in Markets /\ e.isNum

\* the alert at position i of market m is at the price of an applicable
\* event of the batch
Named(m, i) ==
    \E e \in Range(notifications) :
        Applicable(e) /\ e.market = m /\ e.price = store0[m][i].price

\* C17: markAlertsAsTriggered run on a batch ends with the store it would
\* leave had the events with a missing market or a non-numeric price not
\* been in the batch, and has loaded only the markets of the other events;
\* an alert at the price of no such event of its market is as it was, and
\* the lists keep their length; whatever the batch, the call is at a store
\* call or about to return until it has returned.
C17_MalformedAndUnmatchedIgnored ==
    /\ syncPc[1] # "done" =>
          \/ syncPc[1] = "notifs"
          \/ \E c \in BagToSet(calls) : c.src = "sweep" /\ c.pc \in {"load", "save"}
          \/ syncPc[1] = "mark" /\ ~InFlight("sweep", 1)
    /\ syncPc[1] = "done" =>
        /\ calls = EmptyBag
        /\ store = ApplySweep(store0, SelectSeq(notifications, Applicable))
        /\ loads = {e.market : e \in {x \in Range(notifications) : Applicable(x)}}
        /\ \A m \in Markets :
              /\ Len(store[m]) = Len(store0[m])
              /\ \A i \in DOMAIN store0[m] :
                    ~Named(m, i) => store[m][i] = store0[m][i]

\* a batch of a malformed event, then an event that matches an alert, then
\* one that matches none has run: the matched alert is triggered
C17_Witness ==
    /\ syncPc[1] = "done"
    /\ Len(notifications) = 3
    /\ ~Applicable(notifications[1])
    /\ Applicable(notifications[2])
    /\ Applicable(notifications[3])
    /\ notifications[3].market = notifications[2].market
    /\ LET m == notifications[2].market
       IN /\ FindAlert(store0[m], notifications[3].price) = 0
          /\ \E i \in DOMAIN store0[m] :
                /\ store0[m][i].price = notifications[2].price
                /\ ~store0[m][i].triggered
                /\ store[m][i].triggered

----------------------------------------------------------------------------
\* The order of the sweep and the listener (Spec).

\* the syncs whose sweep has completed
Swept == {k \in DOMAIN syncPc : syncPc[k] = "done"}

\* C18: a message listener is registered only by a sync whose sweep has
\* returned, one per such sync; while none has, no live message is published
\* or handed to markAlertsAsTriggered; and when the first listener is
\* registered the store holds every recovered trigger.
C18_ListenerAfterSweep ==
    /\ listeners = Cardinality(Swept)
    /\ \A k \in Swept : ~InFlight("sweep", k)
    /\ Swept = {} =>
          /\ msgs = <<>>
          /\ \A c \in BagToSet(calls) : c.src # "live"
    /\ (Swept # {} /\ msgs = <<>>) => store = ApplySweep(store0, notifications)

\* a live message has been published and applied after a sweep that marked
\* a recovered alert
C18_Witness ==
    /\ Swept # {}
    /\ Len(msgs) = 1
    /\ WellFormed(msgs[1].data)
    /\ Handled(1)
    /\ notifications # <<>>
    /\ notifications[1].price # msgs[1].data.price
    /\ \E i, j \in DOMAIN store["m1"] :
          /\ i # j
          /\ store["m1"][i].triggered
          /\ store["m1"][j].triggered

\* C19: in the step that publishes a live message on topic alert, the store
\* holds triggered = true for the stored alert the message matches.
C19_StoredWhenPublished ==
    [][Len(msgs') > Len(msgs) =>
          LET e == msgs'[Len(msgs')].data
          IN (WellFormed(e) /\ FindAlert(store'[e.market], e.price) # 0) =>
                store'[e.market][FindAlert(store'[e.market], e.price)].triggered]_vars

\* Progress of the reconciliation: getNotifications and every store call
\* settle, by resolving or by rejecting, and a promise that has resolved runs
\* its continuations. Nothing is assumed of serviceWorker.ready.
SpecFair ==
    /\ Init
    /\ [][Next]_vars
    /\ WF_vars(\E k \in 1..MaxSync : GetNotifications(k) \/ GetNotificationsFail(k))
    /\ WF_vars(\E src \in Sources : MarkLoad(src) \/ MarkSave(src) \/ MarkFail(src))
    /\ WF_vars(\E k \in 1..MaxSync : SweepDone(k))
    /\ WF_vars(\E r \in Readers : GetAlertsResume(r))
    /\ WF_vars(\E r \in Readers : GetAlertsRead(r))

\* C20: once the registration of the first sync is ready its gate resolves,
\* and a getAlerts call that waits on it returns, also when getNotifications
\* or a store call of the sweep rejects.
C20_GateResolves ==
    /\ (syncPc[1] = "notifs") ~> (syncPc[1] = "done")
    /\ \A r \in Readers :
          (reader[r].pc = "wait" /\ reader[r].gate = 1 /\ syncPc[1] = "notifs")
             ~> (reader[r].pc = "done")

====
